---- MODULE Spec2Model ----
(***************************************************************************)
(* Scanner registration (day19/main.py): the transform solver, the overlap *)
(* matcher and the transform graph builder.                                *)
(*                                                                         *)
(* Matrices are sequences of rows.  A Euclidean distance sqrt(n) is        *)
(* represented by its radicand n: the square root is strictly increasing   *)
(* on the integers that occur, so two distances are equal exactly when     *)
(* their radicands are.  The solver is computed in exact rational          *)
(* arithmetic (adjugate over determinant) and then rounded half-to-even,   *)
(* as numpy.round does.                                                    *)
(***************************************************************************)
EXTENDS Integers, Sequences, FiniteSets, TLC

\* Largest number of scanners in an input.
NumScanners == 4

\* Frames the interpreter allows explore_transformations to nest before it
\* raises RecursionError (sys.getrecursionlimit() is 1000 by default; only
\* its finiteness matters, and it exceeds the number of scanners).
RecursionLimit == 6

VARIABLES
    pc,            \* where create_transformations_dict stands
    n_scanners,    \* len(scan_data)
    common,        \* what map_common_points selected, per scanner pair read so far
    h_dict,        \* transformation_dict / h_dict
    keys0,         \* insertion order of the keys of h_dict[0]
    ind_scanner0,  \* outer loop variable, line 113
    ind_scanner1,  \* inner loop variable, line 114
    depth,         \* calls of explore_transformations that made a pass and recurred
    src_pts,       \* solve_for_h's first argument p0, the source points
    dst_pts,       \* solve_for_h's second argument p1, the destination points
    true_h,        \* the transform that took dst_pts to src_pts
    h_mat,         \* what solve_for_h gave, once called
    solve_pc,      \* "call" before solve_for_h is called, "return" after
    scan0,         \* the beacons of the first scan
    scan1,         \* the beacons of the second scan
    n_common,      \* how many beacons the two scans have in common
    matched,       \* what map_common_points gave, once called
    match_pc       \* "call" before map_common_points is called, "return" after

graph_vars == <<pc, n_scanners, common, h_dict, keys0, ind_scanner0, ind_scanner1, depth>>

solve_vars == <<src_pts, dst_pts, true_h, h_mat, solve_pc>>

match_vars == <<scan0, scan1, n_common, matched, match_pc>>

vars == <<graph_vars, solve_vars, match_vars>>

(***************************************************************************)
(* Linear algebra                                                          *)
(***************************************************************************)

\* a function over 1..n as a tuple, which holds its entries evaluated
Tuple(f) ==
    SubSeq(f, 1, Len(f))

RECURSIVE Dot(_, _, _)
\* sum over k in 1..n of a[k] * b[k]
Dot(a, b, n) ==
    IF n = 0 THEN 0 ELSE Dot(a, b, n - 1) + a[n] * b[n]

\* A.T for a matrix of ncols columns
Transpose(A, ncols) ==
    Tuple([j \in 1..ncols |-> Tuple([i \in 1..(Len(A)) |-> A[i][j]])])

\* A @ B.T
MatMulT(A, B) ==
    Tuple([i \in 1..(Len(A)) |-> Tuple([j \in 1..(Len(B)) |-> Dot(A[i], B[j], Len(A[i]))])])

\* A @ B, the inner dimension at least 1
MatMul(A, B) ==
    MatMulT(A, Transpose(B, Len(B[1])))

\* np.eye(4)
Eye4 ==
    << <<1, 0, 0, 0>>, <<0, 1, 0, 0>>, <<0, 0, 1, 0>>, <<0, 0, 0, 1>> >>

\* the indices 1..n without i, ascending
Without(n, i) ==
    Tuple([k \in 1..(n - 1) |-> IF k < i THEN k ELSE k + 1])

Det2(M, r, c) ==
    M[r[1]][c[1]] * M[r[2]][c[2]] - M[r[1]][c[2]] * M[r[2]][c[1]]

\* determinant of the 3x3 submatrix on rows r and columns c
Det3(M, r, c) ==
      M[r[1]][c[1]] * Det2(M, <<r[2], r[3]>>, <<c[2], c[3]>>)
    - M[r[1]][c[2]] * Det2(M, <<r[2], r[3]>>, <<c[1], c[3]>>)
    + M[r[1]][c[3]] * Det2(M, <<r[2], r[3]>>, <<c[1], c[2]>>)

\* the minor of a 4x4 matrix: row i and column j removed
Minor4(M, i, j) ==
    Det3(M, Without(4, i), Without(4, j))

Sign(k) ==
    IF k % 2 = 0 THEN 1 ELSE -1

Det4(M) ==
      M[1][1] * Minor4(M, 1, 1) - M[1][2] * Minor4(M, 1, 2)
    + M[1][3] * Minor4(M, 1, 3) - M[1][4] * Minor4(M, 1, 4)

\* the adjugate: inv(M) = Adj4(M) / Det4(M)
Adj4(M) ==
    Tuple([i \in 1..4 |-> Tuple([j \in 1..4 |-> Sign(i + j) * Minor4(M, j, i)])])

\* np.round(n / d) for d > 0: to the nearest integer, a tie to the even one
RoundDiv(n, d) ==
    LET q == n \div d
        r == n % d
    IN  IF 2 * r < d THEN q
        ELSE IF 2 * r > d THEN q + 1
        ELSE IF q % 2 = 0 THEN q ELSE q + 1

(***************************************************************************)
(* invert_h, make_points_homogenous, solve_for_h                           *)
(***************************************************************************)

\* r.T, for h's top-left 3x3 block r
RotT(h) ==
    Tuple([i \in 1..3 |-> <<h[1][i], h[2][i], h[3][i]>>])

invert_h_no_transpose(h) ==
    LET r == <<SubSeq(h[1], 1, 3), SubSeq(h[2], 1, 3), SubSeq(h[3], 1, 3)>>
        t == <<h[1][4], h[2][4], h[3][4]>>
    IN  Tuple([i \in 1..3 |-> Append(r[i], -Dot(r[i], t, 3))]) \o << <<0, 0, 0, 1>> >>

invert_h_no_negation(h) ==
    LET rT == RotT(h)
        t == <<h[1][4], h[2][4], h[3][4]>>
    IN  Tuple([i \in 1..3 |-> Append(rT[i], Dot(rT[i], t, 3))]) \o << <<0, 0, 0, 1>> >>

\* lines 29-33
invert_h(h) ==
    LET rT == RotT(h)
        t == <<h[1][4], h[2][4], h[3][4]>>
    IN  Tuple([i \in 1..3 |-> Append(rT[i], -Dot(rT[i], t, 3))]) \o << <<0, 0, 0, 1>> >>

\* np.hstack([p, ones]).T: 4 rows, one column per point
make_points_homogenous(p) ==
    Tuple([r \in 1..4 |-> Tuple([k \in 1..(Len(p)) |-> IF r <= 3 THEN p[k][r] ELSE 1])])

\* what a call returns, or the exception it raises
Returned(v) == [raised |-> "", val |-> v]
Raised(e) == [raised |-> e, val |-> <<>>]

solve_for_h_swapped(p0, p1) ==
    LET src == make_points_homogenous(p1)
        dst == make_points_homogenous(p0)
        gram == MatMulT(dst, dst)
        det == Det4(gram)
        right_inv_dst == MatMul(Transpose(dst, Len(p0)), Adj4(gram))
        num == MatMul(src, right_inv_dst)
    IN  IF det = 0 THEN Raised("LinAlgError")
        ELSE Returned(Tuple([i \in 1..4 |-> Tuple([j \in 1..4 |-> RoundDiv(num[i][j], det)])]))

\* np.linalg.inv raises LinAlgError on a singular dst @ dst.T
solve_for_h(p0, p1) ==
    LET src == make_points_homogenous(p0)
        dst == make_points_homogenous(p1)
        gram == MatMulT(dst, dst)
        det == Det4(gram)
        right_inv_dst == MatMul(Transpose(dst, Len(p1)), Adj4(gram))
        num == MatMul(src, right_inv_dst)
    IN  IF det = 0 THEN Raised("LinAlgError")
        ELSE Returned(Tuple([i \in 1..4 |-> Tuple([j \in 1..4 |-> RoundDiv(num[i][j], det)])]))

(***************************************************************************)
(* Scan data.  Every scanner sees the same beacons in its own frame; the   *)
(* overlap matcher's selection for a scanner pair is an input of the       *)
(* builder, drawn from Selections.                                         *)
(***************************************************************************)

Scanners == 0..(NumScanners - 1)

None == <<>>

\* beacon positions in the frame of scanner 0
Beacons ==
    << <<0, 0, 0>>, <<1, 0, 0>>, <<0, 1, 0>>, <<0, 0, 1>>, <<1, 1, 1>> >>

\* the orientation of scanner s: a rotation by a quarter or half turn about an axis
Orientation(s) ==
    CASE s % 4 = 0 -> << <<1, 0, 0>>, <<0, 1, 0>>, <<0, 0, 1>> >>
      [] s % 4 = 1 -> << <<0, -1, 0>>, <<1, 0, 0>>, <<0, 0, 1>> >>
      [] s % 4 = 2 -> << <<1, 0, 0>>, <<0, -1, 0>>, <<0, 0, -1>> >>
      [] OTHER     -> << <<0, 0, 1>>, <<0, 1, 0>>, <<-1, 0, 0>> >>

\* where scanner s puts the origin of scanner 0
Offset(s) ==
    <<s, -s, s % 2>>

\* the beacons as scanner s reports them, in the order of Beacons
Seen(s) ==
    Tuple([k \in 1..(Len(Beacons)) |-> Tuple([i \in 1..3 |-> Dot(Orientation(s)[i], Beacons[k], 3) + Offset(s)[i]])])

\* map_common_points' outcomes for scanners a and b, with the points
\* data[a][ind_src], data[b][ind_dst] it selects: no overlap (None, None);
\* the common beacons; index arrays that select nothing.
Selections(a, b) ==
    { [found |-> FALSE, p0 |-> <<>>, p1 |-> <<>>],
      [found |-> TRUE, p0 |-> Seen(a), p1 |-> Seen(b)],
      [found |-> TRUE, p0 |-> <<>>, p1 |-> <<>>] }

(***************************************************************************)
(* find_transformation_btw, explore_transformations,                      *)
(* create_transformations_dict                                             *)
(***************************************************************************)

\* lines 89-95, m being what map_common_points returned and selected
find_transformation_btw(m) ==
    IF m.found THEN solve_for_h(m.p0, m.p1) ELSE Returned(None)

halting_condition_at_most(h) ==
    Cardinality(DOMAIN h) - 1 >= Cardinality(DOMAIN h[0])

\* line 99
halting_condition(h) ==
    Cardinality(DOMAIN h) - 1 = Cardinality(DOMAIN h[0])

is_new_link_any(row0, dst) ==
    dst \notin DOMAIN row0

\* line 104
is_new_link(row0, dst) ==
    dst \notin DOMAIN row0 /\ dst # 0

\* line 106
compose(h0_interm, h_interm_dst) ==
    MatMul(h0_interm, h_interm_dst)

\* the members of a set of integers, ascending
RECURSIVE Ascending(_)
Ascending(S) ==
    IF S = {} THEN <<>>
    ELSE LET m == CHOOSE x \in S : \A y \in S : x <= y
         IN  <<m>> \o Ascending(S \ {m})

\* lines 103-106 for one intermediate: dsts are the keys of h[interm] still
\* to visit, row0 and order0 are h_dict[0] and its key order so far
RECURSIVE inner_loop(_, _, _, _, _)
inner_loop(h, interm, dsts, row0, order0) ==
    IF dsts = <<>> THEN [row |-> row0, order |-> order0]
    ELSE LET dst == Head(dsts)
         IN  IF is_new_link(row0, dst)
             THEN inner_loop(h, interm, Tail(dsts),
                             row0 @@ (dst :> compose(row0[interm], h[interm][dst])),
                             Append(order0, dst))
             ELSE inner_loop(h, interm, Tail(dsts), row0, order0)

RECURSIVE outer_loop_live(_, _, _, _)
outer_loop_live(h, interms, row0, order0) ==
    IF interms = <<>> THEN [row |-> row0, order |-> order0]
    ELSE LET interm == Head(interms)
             keys == IF interm = 0 THEN order0 ELSE Ascending(DOMAIN h[interm])
             r == inner_loop(h, interm, keys, row0, order0)
         IN  outer_loop_live(h, Tail(interms) \o SubSeq(r.order, Len(order0) + 1, Len(r.order)),
                             r.row, r.order)

\* lines 102-106: interms is what is left of list(h_dict[0].keys())
RECURSIVE outer_loop(_, _, _, _)
outer_loop(h, interms, row0, order0) ==
    IF interms = <<>> THEN [row |-> row0, order |-> order0]
    ELSE LET interm == Head(interms)
             keys == IF interm = 0 THEN order0 ELSE Ascending(DOMAIN h[interm])
             r == inner_loop(h, interm, keys, row0, order0)
         IN  outer_loop(h, Tail(interms), r.row, r.order)

\* the loop position after the pair (a, b), lines 113-114; a = n - 1 when the loops end
NextPair(n, a, b) ==
    IF b + 1 < n THEN <<a, b + 1>>
    ELSE IF a + 2 < n THEN <<a + 1, a + 2>>
    ELSE <<n - 1, n>>

Advance ==
    LET nx == NextPair(n_scanners, ind_scanner0, ind_scanner1)
    IN  /\ ind_scanner0' = nx[1]
        /\ ind_scanner1' = nx[2]
        /\ pc' = IF nx[1] = n_scanners - 1 THEN "explore" ELSE "direct"

\* line 112, and the loops entered
Init ==
    /\ n_scanners \in 2..NumScanners
    /\ pc = "direct"
    /\ common = <<>>
    /\ h_dict = [i \in 0..(n_scanners - 1) |-> <<>>]
    /\ keys0 = <<>>
    /\ ind_scanner0 = 0
    /\ ind_scanner1 = 1
    /\ depth = 0
    /\ src_pts = <<>>
    /\ dst_pts = <<>>
    /\ true_h = Eye4
    /\ h_mat = Returned(None)
    /\ solve_pc = "idle"
    /\ scan0 = <<>>
    /\ scan1 = <<>>
    /\ n_common = 0
    /\ matched = Returned(None)
    /\ match_pc = "idle"

\* lines 115-117: no transformation, the pair is skipped
SkipPair ==
    /\ pc = "direct"
    /\ \E m \in Selections(ind_scanner0, ind_scanner1) :
          LET r == find_transformation_btw(m)
          IN  /\ r.raised = ""
              /\ r.val = None
              /\ common' = common @@ (<<ind_scanner0, ind_scanner1>> :> m)
    /\ Advance
    /\ UNCHANGED <<n_scanners, h_dict, keys0, depth>>
    /\ UNCHANGED <<solve_vars, match_vars>>

\* lines 115-119: the transformation and its inverse are stored
StorePair ==
    /\ pc = "direct"
    /\ \E m \in Selections(ind_scanner0, ind_scanner1) :
          LET r == find_transformation_btw(m)
              a == ind_scanner0
              b == ind_scanner1
          IN  /\ r.raised = ""
              /\ r.val # None
              /\ common' = common @@ (<<a, b>> :> m)
              /\ h_dict' = [h_dict EXCEPT ![a] = @ @@ (b :> r.val),
                                          ![b] = @ @@ (a :> invert_h(r.val))]
              /\ keys0' = IF a = 0 THEN Append(keys0, b) ELSE keys0
    /\ Advance
    /\ UNCHANGED <<n_scanners, depth>>
    /\ UNCHANGED <<solve_vars, match_vars>>

\* line 115: the solver's exception leaves create_transformations_dict
SolverRaises ==
    /\ pc = "direct"
    /\ \E m \in Selections(ind_scanner0, ind_scanner1) :
          LET r == find_transformation_btw(m)
          IN  /\ r.raised # ""
              /\ common' = common @@ (<<ind_scanner0, ind_scanner1>> :> m)
              /\ pc' = r.raised
    /\ UNCHANGED <<n_scanners, h_dict, keys0, ind_scanner0, ind_scanner1, depth>>
    /\ UNCHANGED <<solve_vars, match_vars>>

\* lines 99, 102-108: a call that does not halt makes one pass and recurs
ExplorePass ==
    /\ pc = "explore"
    /\ depth < RecursionLimit
    /\ ~halting_condition(h_dict)
    /\ LET r == outer_loop(h_dict, keys0, h_dict[0], keys0)
       IN  /\ h_dict' = [h_dict EXCEPT ![0] = r.row]
           /\ keys0' = r.order
    /\ depth' = depth + 1
    /\ UNCHANGED <<pc, n_scanners, common, ind_scanner0, ind_scanner1>>
    /\ UNCHANGED <<solve_vars, match_vars>>

\* lines 99-101 and 122-123: the halting call returns through every frame,
\* and create_transformations_dict adds the identity and returns
ExploreReturn ==
    /\ pc = "explore"
    /\ depth < RecursionLimit
    /\ halting_condition(h_dict)
    /\ h_dict' = [h_dict EXCEPT ![0] =
                    IF 0 \in DOMAIN @ THEN [@ EXCEPT ![0] = Eye4] ELSE @ @@ (0 :> Eye4)]
    /\ keys0' = IF 0 \in DOMAIN h_dict[0] THEN keys0 ELSE Append(keys0, 0)
    /\ pc' = "done"
    /\ UNCHANGED <<n_scanners, common, ind_scanner0, ind_scanner1, depth>>
    /\ UNCHANGED <<solve_vars, match_vars>>

\* line 108 (or 121): one call more than the interpreter allows
RecursionError ==
    /\ pc = "explore"
    /\ depth = RecursionLimit
    /\ pc' = "RecursionError"
    /\ UNCHANGED <<n_scanners, common, h_dict, keys0, ind_scanner0, ind_scanner1, depth>>
    /\ UNCHANGED <<solve_vars, match_vars>>

Next ==
    \/ SkipPair
    \/ StorePair
    \/ SolverRaises
    \/ ExplorePass
    \/ ExploreReturn
    \/ RecursionError

Spec == Init /\ [][Next]_vars

(***************************************************************************)
(* The direct-overlap graph of the input, and hop distances from scanner 0 *)
(***************************************************************************)

Ids == 0..(n_scanners - 1)

\* the matcher found common beacons of scanners a and b
Linked(a, b) ==
    LET p == IF a < b THEN <<a, b>> ELSE <<b, a>>
    IN  a # b /\ p \in DOMAIN common /\ common[p].found /\ common[p].p0 # <<>>

\* the scanners at most k hops from scanner 0
RECURSIVE Within(_)
Within(k) ==
    IF k = 0 THEN {0}
    ELSE LET W == Within(k - 1)
         IN  W \cup {b \in Ids : \E a \in W : Linked(a, b)}

Reachable == Within(n_scanners - 1)

Connected == Reachable = Ids

\* hop distance of a reachable scanner
Hop(s) ==
    CHOOSE k \in 0..(n_scanners - 1) : s \in Within(k) /\ (k = 0 \/ s \notin Within(k - 1))

\* the largest hop distance of a reachable scanner
MaxHop ==
    CHOOSE k \in 0..(n_scanners - 1) : Within(k) = Reachable /\ (k = 0 \/ Within(k - 1) # Reachable)

\* every pair has been through the direct-edge loop
DirectDone == pc \in {"explore", "done", "RecursionError"}

\* orthonormal 3x3 block and bottom row [0, 0, 0, 1]
IsRigid(h) ==
    LET r == <<SubSeq(h[1], 1, 3), SubSeq(h[2], 1, 3), SubSeq(h[3], 1, 3)>>
    IN  /\ MatMulT(r, r) = << <<1, 0, 0>>, <<0, 1, 0>>, <<0, 0, 1>> >>
        /\ h[4] = <<0, 0, 0, 1>>

\* h @ homogeneous(from) = homogeneous(to)
Maps(h, from, to) ==
    /\ Len(from) = Len(to)
    /\ Len(from) > 0
    /\ MatMul(h, make_points_homogenous(from)) = make_points_homogenous(to)

(***************************************************************************)
(* Claims about the transform graph builder                                *)
(***************************************************************************)

\* C1 as stated: with a connected direct-overlap graph
\* create_transformations_dict ends by returning, never by an exception,
\* and on return row 0 has an entry for every scanner id, the entry 0->0
\* being the identity.
C1_ConnectedReturns ==
    Connected =>
        /\ pc \in {"direct", "explore", "done"}
        /\ pc = "done" =>
              /\ DOMAIN h_dict[0] = Ids
              /\ h_dict[0][0] = Eye4

\* What does hold: when no pair made the solver raise and the overlap graph
\* is connected, every call of explore_transformations halts or adds an
\* entry to row 0, so at most n - 2 calls make a pass; the builder returns
\* a full row 0 provided that many calls fit under the recursion limit.
ReturnsWhenCallsFit ==
    (DirectDone /\ Connected /\ n_scanners - 2 < RecursionLimit) =>
        /\ pc \in {"explore", "done"}
        /\ depth <= n_scanners - 2
        /\ pc = "explore" =>
              /\ 0 \notin DOMAIN h_dict[0]
              /\ Cardinality(DOMAIN h_dict[0]) >= depth + 1
              /\ Cardinality(DOMAIN h_dict[0]) <= n_scanners - 1
        /\ pc = "done" =>
              /\ DOMAIN h_dict[0] = Ids
              /\ h_dict[0][0] = Eye4

\* C2 as amended: on a disconnected overlap graph the halting condition is
\* never met and no entry 0->s is added for an unreachable scanner s; the
\* passes go on until the recursion limit, where RecursionError ends the run.
C2_NeverHaltsUntilRecursionError ==
    (DirectDone /\ ~Connected) =>
        /\ pc \in {"explore", "RecursionError"}
        /\ Cardinality(DOMAIN h_dict[0]) < n_scanners - 1
        /\ \A s \in Ids \ Reachable : s \notin DOMAIN h_dict[0]
        /\ depth <= RecursionLimit
        /\ (pc = "RecursionError" => depth = RecursionLimit)

C2_Witness ==
    /\ ~Connected
    /\ pc = "RecursionError"
    /\ depth = RecursionLimit
    /\ Cardinality(Reachable) >= 2

\* C2 as stated: on a disconnected overlap graph the propagation repeats
\* forever and no error is raised.
C2_LoopsForeverSilently ==
    (DirectDone /\ ~Connected) =>
        /\ pc = "explore"
        /\ \A s \in Ids \ Reachable : s \notin DOMAIN h_dict[0]

\* C3: after k passes row 0 holds exactly the scanners 1..k+1 hops from
\* scanner 0, each one beyond the first hop as (0->interm) @ (interm->dst)
\* for an intermediate one hop closer; the builder returns after
\* (largest hop distance - 1) passes: none for a star, two for the chain
\* 0-1-2-3.
C3_PassesFollowHops ==
    (pc \in {"explore", "done"}) =>
        /\ \A s \in Ids \ {0} :
              s \in DOMAIN h_dict[0] <=> (s \in Reachable /\ Hop(s) <= depth + 1)
        /\ \A s \in DOMAIN h_dict[0] \ {0} :
              Hop(s) >= 2 =>
                 \E i \in DOMAIN h_dict[0] \ {0} :
                    /\ Linked(i, s)
                    /\ Hop(i) = Hop(s) - 1
                    /\ h_dict[0][s] = MatMul(h_dict[0][i], h_dict[i][s])
        /\ (pc = "done" /\ n_scanners >= 2) => depth = MaxHop - 1

\* the chain 0-1-2-3
IsChain ==
    /\ n_scanners = 4
    /\ DirectDone
    /\ \A a, b \in Ids : Linked(a, b) <=> (a - b = 1 \/ b - a = 1)

C3_Witness ==
    /\ IsChain
    /\ pc = "done"
    /\ depth = 2
    /\ h_dict[0][3] = MatMul(h_dict[0][2], h_dict[2][3])
    /\ h_dict[0][2] = MatMul(h_dict[0][1], h_dict[1][2])

\* C4: after the direct-edge phase a->b is stored exactly when b->a is, and
\* a rigid solved transform and the entry stored opposite it are inverses.
C4_DirectEdgesSymmetric ==
    (pc \in {"direct", "explore"} /\ depth = 0) =>
        \A a, b \in Ids :
            a # b =>
                /\ b \in DOMAIN h_dict[a] <=> a \in DOMAIN h_dict[b]
                /\ (b \in DOMAIN h_dict[a] /\ IsRigid(h_dict[a][b])) =>
                      /\ a \in DOMAIN h_dict[b]
                      /\ MatMul(h_dict[a][b], h_dict[b][a]) = Eye4
                      /\ MatMul(h_dict[b][a], h_dict[a][b]) = Eye4

C4_Witness ==
    /\ pc = "explore"
    /\ depth = 0
    /\ n_scanners = 3
    /\ 1 \in DOMAIN h_dict[0]
    /\ 2 \notin DOMAIN h_dict[0]
    /\ 2 \in DOMAIN h_dict[1]
    /\ IsRigid(h_dict[0][1])
    /\ h_dict[1][0] # h_dict[0][1]
    /\ MatMul(h_dict[0][1], h_dict[1][0]) = Eye4

\* C5 as amended: for two overlapping scanners the returned graph is
\* {0: {0: I, 1: T}, 1: {0: T^-1}}, T taking scanner 1's coordinates of the
\* common beacons to scanner 0's; scanner 1 gets no self-entry.
C5_TwoScannerGraph ==
    (n_scanners = 2 /\ pc = "done" /\ Linked(0, 1)) =>
        /\ DOMAIN h_dict[0] = {0, 1}
        /\ h_dict[0][0] = Eye4
        /\ IsRigid(h_dict[0][1])
        /\ Maps(h_dict[0][1], Seen(1), Seen(0))
        /\ DOMAIN h_dict[1] = {0}
        /\ Maps(h_dict[1][0], Seen(0), Seen(1))
        /\ MatMul(h_dict[0][1], h_dict[1][0]) = Eye4

C5_Witness ==
    /\ n_scanners = 2
    /\ pc = "done"
    /\ Linked(0, 1)
    /\ h_dict[0][1] # Eye4
    /\ DOMAIN h_dict[1] = {0}

\* C5 as stated: both scanners carry an identity self-entry.
C5_BothSelfEntries ==
    (n_scanners = 2 /\ pc = "done" /\ Linked(0, 1)) =>
        /\ DOMAIN h_dict[0] = {0, 1}
        /\ h_dict[0][0] = Eye4
        /\ Maps(h_dict[0][1], Seen(1), Seen(0))
        /\ DOMAIN h_dict[1] = {0, 1}
        /\ h_dict[1][1] = Eye4
        /\ MatMul(h_dict[0][1], h_dict[1][0]) = Eye4

\* C6 as stated: when the matcher's result for a pair is none or empty, the
\* caller stores nothing, raises nothing and goes on with the next pair.
C6_NoneOrEmptySkipped ==
    [][(/\ pc = "direct"
        /\ <<ind_scanner0, ind_scanner1>> \in DOMAIN common'
        /\ LET m == common'[<<ind_scanner0, ind_scanner1>>]
           IN  ~m.found \/ m.p0 = <<>>)
       => (/\ h_dict' = h_dict
           /\ pc' \in {"direct", "explore"}
           /\ <<ind_scanner0', ind_scanner1'>>
                 = NextPair(n_scanners, ind_scanner0, ind_scanner1))]_vars

\* C10: a propagation pass only adds entries to row 0: entries present
\* stay as they are, no entry 0->0 appears, the other rows do not change.
C10_PassOnlyExtendsRow0 ==
    [][(pc = "explore" /\ pc' = "explore") =>
          /\ \A a \in Ids \ {0} : h_dict'[a] = h_dict[a]
          /\ DOMAIN h_dict[0] \subseteq DOMAIN h_dict'[0]
          /\ \A x \in DOMAIN h_dict[0] : h_dict'[0][x] = h_dict[0][x]
          /\ 0 \notin DOMAIN h_dict'[0]
          /\ DOMAIN h_dict' = DOMAIN h_dict]_vars

C10_Witness ==
    /\ pc = "explore"
    /\ depth >= 1
    /\ 0 \notin DOMAIN h_dict[0]
    /\ \E s \in DOMAIN h_dict[0] : ~Linked(0, s)

(***************************************************************************)
(* solve_for_h on its own: destination points, a rigid transform true_h,   *)
(* and as source points the destination points taken through true_h, the   *)
(* last of them possibly displaced                                         *)
(***************************************************************************)

\* the points p taken through the 4x4 transform h
TransformPoints(h, p) ==
    Tuple([k \in 1..Len(p) |->
        Tuple([i \in 1..3 |-> Dot(SubSeq(h[i], 1, 3), p[k], 3) + h[i][4]])])

\* the 24 rotations that take coordinate axes to coordinate axes
AxisRotations ==
    LET Perms == {q \in [1..3 -> 1..3] : {q[1], q[2], q[3]} = {1, 2, 3}}
        Signed == {Tuple([i \in 1..3 |-> Tuple([j \in 1..3 |-> IF q[i] = j THEN sg[i] ELSE 0])]) :
                      q \in Perms, sg \in [1..3 -> {-1, 1}]}
    IN  {r \in Signed : Det3(r, <<1, 2, 3>>, <<1, 2, 3>>) = 1}

Translations ==
    { <<0, 0, 0>>, <<2, -1, 0>>, <<-3, 1, 2>> }

RigidTransforms ==
    {Tuple([i \in 1..3 |-> Append(r[i], t[i])]) \o << <<0, 0, 0, 1>> >> :
        r \in AxisRotations, t \in Translations}

\* point sets of four to six points: three that span space, four in the
\* plane z = 0, four on the x axis
PointSets ==
    { << <<0, 0, 0>>, <<1, 0, 0>>, <<0, 1, 0>>, <<0, 0, 1>> >>,
      Beacons,
      << <<1, 0, 0>>, <<0, 2, 0>>, <<0, 0, 3>>, <<1, 1, 1>>, <<-1, 0, 2>>, <<2, -1, 0>> >>,
      << <<0, 0, 0>>, <<1, 0, 0>>, <<0, 1, 0>>, <<1, 1, 0>> >>,
      << <<0, 0, 0>>, <<1, 0, 0>>, <<2, 0, 0>>, <<3, 0, 0>> >> }

\* by how much the last source point is off
Displacements ==
    { <<0, 0, 0>>, <<1, 0, 0>> }

DisplaceLast(p, d) ==
    SubSeq(p, 1, Len(p) - 1)
        \o << <<p[Len(p)][1] + d[1], p[Len(p)][2] + d[2], p[Len(p)][3] + d[3]>> >>

InitSolve ==
    /\ pc = "idle"
    /\ n_scanners = 0
    /\ common = <<>>
    /\ h_dict = <<>>
    /\ keys0 = <<>>
    /\ ind_scanner0 = 0
    /\ ind_scanner1 = 0
    /\ depth = 0
    /\ dst_pts \in PointSets
    /\ true_h \in RigidTransforms
    /\ \E d \in Displacements : src_pts = DisplaceLast(TransformPoints(true_h, dst_pts), d)
    /\ h_mat = Returned(None)
    /\ solve_pc = "call"
    /\ scan0 = <<>>
    /\ scan1 = <<>>
    /\ n_common = 0
    /\ matched = Returned(None)
    /\ match_pc = "idle"

\* lines 80-83
SolveCall ==
    /\ solve_pc = "call"
    /\ h_mat' = solve_for_h(src_pts, dst_pts)
    /\ solve_pc' = "return"
    /\ UNCHANGED <<src_pts, dst_pts, true_h>>
    /\ UNCHANGED <<graph_vars, match_vars>>

NextSolve ==
    SolveCall

SpecSolve == InitSolve /\ [][NextSolve]_vars

\* some four of the points span space
SpansSpace(p) ==
    \E i, j, k, l \in 1..Len(p) :
        LET e == Tuple([m \in 1..3 |->
                    <<p[j][m] - p[i][m], p[k][m] - p[i][m], p[l][m] - p[i][m]>>])
        IN  Det3(e, <<1, 2, 3>>, <<1, 2, 3>>) # 0

MinSharedDistances == 66

\* line 76
MinVotes == 11

\* lines 21-22, the radicand of the square root
euclidean_distance(a, b) ==
      (a[1] - b[1]) * (a[1] - b[1])
    + (a[2] - b[2]) * (a[2] - b[2])
    + (a[3] - b[3]) * (a[3] - b[3])

\* lines 40-44: row i holds the distances from point i to the points i and
\* after, and zeros before
create_distance_matrix(scan_data) ==
    Tuple([i \in 1..Len(scan_data) |->
        Tuple([j \in 1..Len(scan_data) |->
            IF j >= i THEN euclidean_distance(scan_data[i], scan_data[j]) ELSE 0])])

Zeros(n) ==
    Tuple([k \in 1..n |-> 0])

\* np.pad(dst, ((0, 0), (0, target - n_cols))), the matrix being square
PadCols(dst, target) ==
    Tuple([i \in 1..Len(dst) |-> dst[i] \o Zeros(target - Len(dst))])

\* lines 47-52
pad_cols_if_necessary(dst0, dst1) ==
    LET target == IF Len(dst0) >= Len(dst1) THEN Len(dst0) ELSE Len(dst1)
    IN  IF Len(dst0) # Len(dst1)
        THEN <<PadCols(dst0, target), PadCols(dst1, target)>>
        ELSE <<dst0, dst1>>

\* the rows of a matrix one after the other
RECURSIVE Flatten(_)
Flatten(m) ==
    IF m = <<>> THEN <<>> ELSE Head(m) \o Flatten(Tail(m))

\* the positions, from 0, at which a sequence holds v
Occurrences(flat, v) ==
    {k \in 0..(Len(flat) - 1) : flat[k + 1] = v}

Min(S) ==
    CHOOSE x \in S : \A y \in S : x <= y

\* lines 58-60: the values np.unique counts exactly twice in the stacked
\* matrices
shared_values(all_flat) ==
    {v \in {all_flat[k] : k \in 1..Len(all_flat)} :
        Cardinality(Occurrences(all_flat, v)) = 2}

\* line 69 for the value v: idxs[i] // width, idxs[i] % width
idx0_of(all_flat, width, v) ==
    LET first == Min(Occurrences(all_flat, v))
    IN  <<first \div width, first % width>>

\* line 70 for the value v: np.where(dst1 == v), the row indices and the
\* column indices, in row-major order
idx1_of(dst1_flat, width, v) ==
    LET where == Ascending(Occurrences(dst1_flat, v))
    IN  << Tuple([k \in 1..Len(where) |-> where[k] \div width]),
           Tuple([k \in 1..Len(where) |-> where[k] % width]) >>

\* map_mat[x, ys] += 1: every cell the index names goes up by one, once
Increment(map_mat, x, ys) ==
    Tuple([a \in 1..Len(map_mat) |->
        IF a # x + 1 THEN map_mat[a]
        ELSE Tuple([b \in 1..Len(map_mat[a]) |->
                IF \E k \in 1..Len(ys) : ys[k] = b - 1
                THEN map_mat[a][b] + 1 ELSE map_mat[a][b]])])

\* lines 68-72 for the values still to go, ascending; an index past the
\* rows of map_mat raises IndexError
RECURSIVE cast_votes(_, _, _, _, _)
cast_votes(map_mat, vals, all_flat, dst1_flat, width) ==
    IF vals = <<>> THEN Returned(map_mat)
    ELSE LET idx0 == idx0_of(all_flat, width, Head(vals))
             idx1 == idx1_of(dst1_flat, width, Head(vals))
         IN  IF idx0[1] >= Len(map_mat) \/ idx0[2] >= Len(map_mat)
             THEN Raised("IndexError")
             ELSE cast_votes(
                    Increment(Increment(Increment(Increment(map_mat,
                        idx0[1], idx1[1]), idx0[2], idx1[1]), idx0[1], idx1[2]), idx0[2], idx1[2]),
                    Tail(vals), all_flat, dst1_flat, width)

\* line 76: np.where(map_mat >= MinVotes), the cells in row-major order
where_enough_votes(map_mat, n_rows, n_cols) ==
    LET cells == Ascending({k \in 0..(n_rows * n_cols - 1) :
                     map_mat[(k \div n_cols) + 1][(k % n_cols) + 1] >= MinVotes})
    IN  << Tuple([k \in 1..Len(cells) |-> cells[k] \div n_cols]),
           Tuple([k \in 1..Len(cells) |-> cells[k] % n_cols]) >>

\* lines 55-77; (None, None) is None
map_common_points(dst0, dst1) ==
    LET padded == pad_cols_if_necessary(dst0, dst1)
        width == IF Len(dst0) >= Len(dst1) THEN Len(dst0) ELSE Len(dst1)
        all_flat == Flatten(padded[1] \o padded[2])
        dst1_flat == Flatten(padded[2])
        vals == shared_values(all_flat)
        map_mat == Tuple([a \in 1..Len(dst0) |-> Zeros(Len(dst1))])
    IN  IF Cardinality(vals) < MinSharedDistances THEN Returned(None)
        ELSE LET voted == cast_votes(map_mat, Ascending(vals), all_flat, dst1_flat, width)
             IN  IF voted.raised # "" THEN voted
                 ELSE Returned(where_enough_votes(voted.val, Len(dst0), Len(dst1)))

(***************************************************************************)
(* map_common_points on its own: two scans that have the first n_common of *)
(* the common beacons, and beacons of their own                            *)
(***************************************************************************)

\* eleven beacons whose distances from one another all differ
CommonBeacons ==
    << <<2, 5, 12>>, <<2, 2, 4>>, <<6, -6, -7>>, <<4, 3, 8>>,
      <<7, -7, -9>>, <<2, -3, -8>>, <<-10, 5, 10>>, <<8, -11, 7>>,
      <<11, 7, 8>>, <<-7, 7, -12>>, <<4, -10, -11>> >>

\* a twelfth, all distances still different
TwelfthBeacon == <<-5, 8, -3>>

\* another twelfth, one of its distances equal to a distance between two others
TwelfthBeaconTied == <<11, -2, 9>>

\* beacons only the first scan has; the second is equally far from two
\* common beacons
OwnBeacons0 ==
    << <<-7, 12, 11>>, <<2, -9, 7>> >>

\* beacons only the second scan has; the second is equally far from two
\* common beacons
OwnBeacons1 ==
    << <<-11, 8, 11>>, <<4, 9, -3>> >>

\* six more beacons only the first scan has
Cluster0 ==
    << <<-20, -4, 16>>, <<25, -23, -25>>, <<23, -25, -5>>, <<-25, -24, -16>>,
      <<-22, -19, 19>>, <<11, -5, -25>> >>

\* six more only the second scan has: as far from one another as those of
\* Cluster0, and elsewhere
Cluster1 ==
    << <<-17, -6, 17>>, <<28, -25, -24>>, <<26, -27, -4>>, <<-22, -26, -15>>,
      <<-19, -21, 20>>, <<14, -7, -24>> >>

\* the smallest number of common beacons tried
MinCommon == 10

\* the entries of a sequence at the positions in idx
Pick(seq, idx) ==
    SelectSeq(Tuple([k \in 1..Len(seq) |-> IF k \in idx THEN <<seq[k]>> ELSE <<>>]),
              LAMBDA e : e # <<>>)

RECURSIVE Concat(_)
Concat(ss) ==
    IF ss = <<>> THEN <<>> ELSE Head(ss) \o Concat(Tail(ss))

\* points given in the frame of scanner 0, as scanner s reports them
InFrame(s, pts) ==
    Tuple([k \in 1..Len(pts) |->
        Tuple([i \in 1..3 |-> Dot(Orientation(s)[i], pts[k], 3) + Offset(s)[i]])])

Reverse(seq) ==
    Tuple([k \in 1..Len(seq) |-> seq[Len(seq) + 1 - k]])

InitMatch ==
    /\ pc = "idle"
    /\ n_scanners = 0
    /\ common = <<>>
    /\ h_dict = <<>>
    /\ keys0 = <<>>
    /\ ind_scanner0 = 0
    /\ ind_scanner1 = 0
    /\ depth = 0
    /\ src_pts = <<>>
    /\ dst_pts = <<>>
    /\ true_h = Eye4
    /\ h_mat = Returned(None)
    /\ solve_pc = "idle"
    /\ n_common \in MinCommon..12
    /\ \E tied \in BOOLEAN, own0 \in SUBSET {1, 2}, own1 \in SUBSET {1, 2}, cluster \in BOOLEAN :
          LET twelve == CommonBeacons \o
                            << IF tied THEN TwelfthBeaconTied ELSE TwelfthBeacon >>
              shared == SubSeq(twelve, 1, n_common)
          IN  /\ scan0 = shared \o Concat(Pick(OwnBeacons0, own0))
                                \o (IF cluster THEN Cluster0 ELSE <<>>)
              /\ scan1 = InFrame(1, Reverse(shared) \o Concat(Pick(OwnBeacons1, own1))
                                \o (IF cluster THEN Cluster1 ELSE <<>>))
    /\ matched = Returned(None)
    /\ match_pc = "call"

\* lines 87-89
MatchCall ==
    /\ match_pc = "call"
    /\ matched' = map_common_points(create_distance_matrix(scan0),
                                    create_distance_matrix(scan1))
    /\ match_pc' = "return"
    /\ UNCHANGED <<scan0, scan1, n_common>>
    /\ UNCHANGED <<graph_vars, solve_vars>>

NextMatch ==
    MatchCall

SpecMatch == InitMatch /\ [][NextMatch]_vars

\* how often v stands in a distance matrix
CountIn(dst, v) ==
    Cardinality(Occurrences(Flatten(dst), v))

\* the values map_common_points treats as shared for the two scans
TreatedAsShared ==
    LET padded == pad_cols_if_necessary(create_distance_matrix(scan0),
                                        create_distance_matrix(scan1))
    IN  shared_values(Flatten(padded[1] \o padded[2]))

\* C7 as stated: map_common_points returns none for two scans with fewer
\* than 12 common points, and for two scans with exactly 12 common points
\* among points of their own it returns two index sequences of one length,
\* at least 12.
C7_TwelveCommonPointsDecide ==
    match_pc = "return" =>
        /\ n_common < 12 => matched = Returned(None)
        /\ n_common = 12 =>
              /\ matched.raised = ""
              /\ matched.val # None
              /\ Len(matched.val[1]) = Len(matched.val[2])
              /\ Len(matched.val[1]) >= 12

\* C9 as stated: every value treated as shared stands exactly once in the
\* first scan's distance matrix and exactly once in the second's, and the
\* matcher returns none exactly when there are fewer than 66 such values.
C9_SharedOnceInEachScan ==
    match_pc = "return" =>
        LET dst0 == create_distance_matrix(scan0)
            dst1 == create_distance_matrix(scan1)
            once == {v \in TreatedAsShared : CountIn(dst0, v) = 1 /\ CountIn(dst1, v) = 1}
        IN  /\ TreatedAsShared = once
            /\ matched = Returned(None) <=> Cardinality(once) < MinSharedDistances

====
